---- MODULE Spec2Model ----
(***************************************************************************)
(* PosixPing (posix_ping.cpp): the raw-socket ICMP echo prober of the      *)
(* desktop client.  A prober owns a raw ICMP socket, builds and sends      *)
(* IPv4+ICMP echo requests (sendEchoRequest) and parses the datagrams the  *)
(* socket delivers (onReadyRead), emitting receivedReply(address).         *)
(*                                                                         *)
(* Bytes are 0..255.  A 16-bit value is a number 0..65535.  A 32-bit       *)
(* value is a tuple of four bytes, most significant first, so that no      *)
(* arithmetic leaves the range of the checker's integers.                  *)
(***************************************************************************)
EXTENDS Integers, Sequences, FiniteSets, TLC

VARIABLES
    build,  \* the build: [littleEndian, mac, unitTest]
    ctor,   \* per prober: what its constructor drew, what failed, what it logged
    ping,   \* per prober: the fields of the PosixPing object and of its socket
    timers, \* per prober: the addresses of the pending single-shot timers
    process,\* "running", or "crashed" once undefined behaviour has ended it
    last,   \* the last operation: its inputs, return value, log and events
    stats   \* per prober: calls of sendEchoRequest, wake-ups, valid replies
            \* read, receivedReply events

vars == <<build, ctor, ping, timers, process, last, stats>>

(***************************************************************************)
(* Bounds of the model.                                                    *)
(***************************************************************************)
\* datagrams differ from a valid echo reply in at most this many fields
MaxFaults == 1
\* the ICMP payload of a received datagram has 0..MaxPayload bytes
MaxPayload == 1
\* wake-ups of the listener in the listener-only specification
MaxListenWakeups == 1
\* calls of sendEchoRequest per prober
MaxSends == 2
\* wake-ups of the listener per prober
MaxWakeups == 2
\* calls of sendEchoRequest in the wraparound specification
MaxWrapSends == 65538
\* calls of sendEchoRequest in the specification of the single call
MaxRichSends == 1
\* the buffers given to calcChecksum alone have 1..MaxSumLen bytes
MaxSumLen == 6
\* the buffers summed word by word have up to MaxFoldLen bytes: 64 KiB
MaxFoldLen == 65536

(***************************************************************************)
(* Sizes and layouts.                                                      *)
(***************************************************************************)
\* struct Ipv4 of onReadyRead: 1+1+2+2+2+1+1+2+4+4 bytes
Ipv4Size == 20
Ipv4ProtocolOffset == 9
Ipv4SrcOffset == 12
\* struct IcmpEcho (posix_ping.h): type, code, checksum, identifier, sequence
IcmpEchoSize == 8
IcmpTypeOffset == 0
IcmpCodeOffset == 1
IcmpChecksumOffset == 2
IcmpIdentifierOffset == 4
IcmpSequenceOffset == 6
\* std::array<quint8, 2048> packet
RecvBufferSize == 2048
\* sizeof(struct ip), <netinet/ip.h>: no options
IpSize == 20
IpLenOffset == 2
IpIdOffset == 4
IpOffOffset == 6
IpDstOffset == 16
\* IP_DF, <netinet/ip.h>: 0x4000
IP_DF == 16384
\* std::size_t arithmetic wraps; the modulus stands for 2^64 and is above
\* every length of the model
SizeModulus == 1073741824

(***************************************************************************)
(* Byte order.  Memory holds bytes; a native load of a quint16 or quint32  *)
(* gives the value the host's byte order makes of them.                    *)
(***************************************************************************)
\* *reinterpret_cast<const quint16*>(p), b0 at the lower address
Load16(b0, b1, le) == IF le THEN b0 + 256 * b1 ELSE 256 * b0 + b1

\* a slip: the quint16 is stored most significant byte first on every host
Store16_Network(v, le) == <<v \div 256, v % 256>>

\* the two bytes a native store of the quint16 v puts in memory
Store16(v, le) == IF le THEN <<v % 256, v \div 256>> ELSE <<v \div 256, v % 256>>

\* a native load of a quint32, b0 at the lowest address
Load32(b0, b1, b2, b3, le) == IF le THEN <<b3, b2, b1, b0>> ELSE <<b0, b1, b2, b3>>

\* ntohs and htons: a byte swap on a little-endian host, nothing otherwise
ntohs(v, le) == IF le THEN (v % 256) * 256 + (v \div 256) ELSE v

htons(v, le) == ntohs(v, le)

\* ntohl and htonl on a 32-bit value
ntohl(w, le) == IF le THEN <<w[4], w[3], w[2], w[1]>> ELSE w

htonl(w, le) == ntohl(w, le)

\* std::size_t subtraction
SizeSub(a, b) == (a - b) % SizeModulus

(***************************************************************************)
(* calcChecksum(data, len): data is the memory from the pointer on, a      *)
(* sequence of bytes, offset i at index i+1.                               *)
(***************************************************************************)
RECURSIVE SumWords(_, _, _)
\* the while loop: the sum of the first n native 16-bit words
SumWords(data, n, le) ==
    IF n = 0 THEN 0
    ELSE SumWords(data, n - 1, le) + Load16(data[2 * n - 1], data[2 * n], le)

\* one folding pass
Fold(accum) == (accum % 65536) + (accum \div 65536)

\* a slip: the trailing odd byte is left out
calcChecksum_SkipsTail(data, len, le) ==
    65535 - (Fold(Fold(SumWords(data, len \div 2, le))) % 65536)

calcChecksum(data, len, le) ==
    LET words == SumWords(data, len \div 2, le)
        accum == IF len % 2 = 1 THEN words + data[len] ELSE words
    IN  65535 - (Fold(Fold(accum)) % 65536)

(***************************************************************************)
(* calcChecksum statement by statement, for long buffers.  The quint32     *)
(* accumulator is the pair of its high and low 16 bits.                    *)
(***************************************************************************)
\* accum += v on a quint32, v below 65536
AccumAdd(accum, v) ==
    <<(accum[1] + ((accum[2] + v) \div 65536)) % 65536, (accum[2] + v) % 65536>>

\* whether accum += v passes 2^32
AccumWraps(accum, v) == accum[1] + ((accum[2] + v) \div 65536) >= 65536

\* accum = (accum & 0xFFFF) + (accum >> 16)
FoldCarry(accum) == <<(accum[2] + accum[1]) \div 65536, (accum[2] + accum[1]) % 65536>>

\* a slip: one folding pass
FoldCarries_OnePass(accum) == FoldCarry(accum)

\* the two folding passes
FoldCarries(accum) == FoldCarry(FoldCarry(accum))

\* ~static_cast<quint16>(accum)
ComplementLow16(accum) == 65535 - accum[2]

\* the offsets (from data) calcChecksum reads
calcChecksumReads(len) ==
    (0 .. (2 * (len \div 2) - 1)) \cup (IF len % 2 = 1 THEN {len - 1} ELSE {})

(***************************************************************************)
(* The datagram recv() returns: read is its result, bytes the read bytes   *)
(* now in the buffer.  The rest of the buffer is uninitialized: a load     *)
(* from there gives the indeterminate byte g.  When recv() fails (read is  *)
(* negative) nothing was written: bytes is then what the uninitialized     *)
(* buffer happens to hold.                                                 *)
(***************************************************************************)
Peek(d, g, i) == IF i < Len(d.bytes) THEN d.bytes[i + 1] ELSE g

(***************************************************************************)
(* onReadyRead, check by check.                                            *)
(***************************************************************************)
\* static_cast<std::size_t>(read) < sizeof(Ipv4)
IncompletePacket(read) == read < Ipv4Size

\* (pIpHdr->version_ihl >> 4) != 4
InvalidVersion(version_ihl) == (version_ihl \div 16) # 4

\* (pIpHdr->version_ihl & 0x0F) * 4
HeaderBytes(version_ihl) == (version_ihl % 16) * 4

\* a slip: the check that an ICMP echo header follows the IP header is left out
InvalidHeaderLength_NoEchoCheck(read, headerBytes) ==
    \/ headerBytes < 20
    \/ read < headerBytes

\* headerBytes < 20 || read < headerBytes || read - headerBytes < sizeof(IcmpEcho)
InvalidHeaderLength(read, headerBytes) ==
    \/ headerBytes < 20
    \/ read < headerBytes
    \/ SizeSub(read, headerBytes) < IcmpEchoSize

\* a slip: the protocol is not looked at
NotIcmp_Ignored(protocol) == FALSE

\* pIpHdr->protocol != 1
NotIcmp(protocol) == protocol # 1

\* a slip: the whole read length is summed, from the ICMP header on
IcmpLength_WholeRead(read, headerBytes) == read

\* the length given to calcChecksum
IcmpLength(read, headerBytes) == SizeSub(read, headerBytes)

\* a slip: any ICMP type is taken for an echo reply
NotOurReply_AnyType(type, code, identifierField, identifier, le) ==
    \/ code # 0
    \/ ntohs(identifierField, le) # identifier

\* a slip: the identifier field is compared as loaded, without ntohs
NotOurReply_NoNtohs(type, code, identifierField, identifier, le) ==
    \/ type # 0
    \/ code # 0
    \/ identifierField # identifier

\* a slip: the identifier is not compared
NotOurReply_AnyIdentifier(type, code, identifierField, identifier, le) ==
    \/ type # 0
    \/ code # 0

\* type != 0 || code != 0 || ntohs(identifier) != _identifier
NotOurReply(type, code, identifierField, identifier, le) ==
    \/ type # 0
    \/ code # 0
    \/ ntohs(identifierField, le) # identifier

\* a slip: the address is emitted in network byte order
ReplyAddress_NoSwap(srcField, le) == srcField

\* the argument of emit receivedReply: ntohl(pIpHdr->src)
ReplyAddress(srcField, le) == ntohl(srcField, le)

\* a slip: a wrong checksum drops the datagram
DispatchReply_DropCorrupt(corrupt, type, code, identifierField, identifier, srcField, le) ==
    [log |-> IF corrupt THEN <<"Received corrupt ICMP packet">> ELSE <<>>,
     emitted |-> IF corrupt \/ NotOurReply(type, code, identifierField, identifier, le)
                 THEN <<>>
                 ELSE <<ReplyAddress(srcField, le)>>]

\* lines 266-284, once the datagram is known to hold an ICMP echo header:
\* warn if the checksum is wrong, then emit unless the reply is not ours
DispatchReply(corrupt, type, code, identifierField, identifier, srcField, le) ==
    [log |-> IF corrupt THEN <<"Received corrupt ICMP packet">> ELSE <<>>,
     emitted |-> IF NotOurReply(type, code, identifierField, identifier, le)
                 THEN <<>>
                 ELSE <<ReplyAddress(srcField, le)>>]

\* what one run of onReadyRead does: the events it emits, what it logs and
\* the buffer offsets it loads from
Handled(emitted, log, reads) == [emitted |-> emitted, log |-> log, reads |-> reads]

onReadyRead(identifier, le, d, g) ==
    LET read == d.read
        version_ihl == Peek(d, g, 0)
        headerBytes == HeaderBytes(version_ihl)
        protocol == Peek(d, g, Ipv4ProtocolOffset)
        srcField == Load32(Peek(d, g, Ipv4SrcOffset), Peek(d, g, Ipv4SrcOffset + 1),
                           Peek(d, g, Ipv4SrcOffset + 2), Peek(d, g, Ipv4SrcOffset + 3), le)
        srcReads == Ipv4SrcOffset .. (Ipv4SrcOffset + 3)
        len == IcmpLength(read, headerBytes)
        data == [i \in 1 .. len |-> Peek(d, g, headerBytes + i - 1)]
        sumReads == {headerBytes + i : i \in calcChecksumReads(len)}
        corrupt == calcChecksum(data, len, le) # 0
        type == Peek(d, g, headerBytes + IcmpTypeOffset)
        code == Peek(d, g, headerBytes + IcmpCodeOffset)
        identifierField == Load16(Peek(d, g, headerBytes + IcmpIdentifierOffset),
                                  Peek(d, g, headerBytes + IcmpIdentifierOffset + 1), le)
        echoReads == {headerBytes + IcmpTypeOffset, headerBytes + IcmpCodeOffset,
                      headerBytes + IcmpIdentifierOffset,
                      headerBytes + IcmpIdentifierOffset + 1}
        reply == DispatchReply(corrupt, type, code, identifierField, identifier,
                               srcField, le)
        replyReads == {0, Ipv4ProtocolOffset} \cup sumReads \cup echoReads
                          \cup (IF corrupt \/ reply.emitted # <<>> THEN srcReads ELSE {})
    IN  IF read < 0
        THEN Handled(<<>>, <<"Failed to read from ICMP socket">>, {})
        ELSE IF IncompletePacket(read)
        THEN Handled(<<>>, <<"Read incomplete packet">>, {})
        ELSE IF InvalidVersion(version_ihl)
        THEN Handled(<<>>, <<"Invalid IPv4 version">>, {0})
        ELSE IF InvalidHeaderLength(read, headerBytes)
        THEN Handled(<<>>, <<"Invalid IP header length">>, {0})
        ELSE IF NotIcmp(protocol)
        THEN Handled(<<>>, <<"Received non-ICMP packet">>, {0, Ipv4ProtocolOffset})
        ELSE Handled(reply.emitted, reply.log, replyReads)

\* a slip: replies are only accepted once a request has been sent
Activated_OnlyIfSent(self, le, d, g) ==
    IF self.nextSequence = 0 THEN Handled(<<>>, <<>>, {})
    ELSE onReadyRead(self.identifier, le, d, g)

\* the slot run on the object self: of its members onReadyRead reads
\* _identifier (and the socket it receives from)
Activated(self, le, d, g) == onReadyRead(self.identifier, le, d, g)

\* a slip: a dropped datagram disables the notifier
AfterRead_DisarmsOnDrop(self, r) ==
    IF r.emitted = <<>> THEN [self EXCEPT !.readNotifier = FALSE] ELSE self

\* a slip: an accepted reply steps the sequence number
AfterRead_StepsSequence(self, r) ==
    IF r.emitted = <<>> THEN self
    ELSE [self EXCEPT !.nextSequence = (@ + 1) % 65536]

\* the object after onReadyRead has run with outcome r: the slot assigns no
\* member and leaves the notifier enabled
AfterRead(self, r) == self

(***************************************************************************)
(* sendEchoRequest: the packet.  A buffer is a sequence of bytes, offset i *)
(* at index i+1.                                                           *)
(***************************************************************************)
\* the bytes a native store of a 32-bit value puts in memory
Store32(w, le) == IF le THEN <<w[4], w[3], w[2], w[1]>> ELSE w

Reverse(v) == [i \in 1 .. Len(v) |-> v[Len(v) + 1 - i]]

\* using TimestampField = quint32 (Q_OS_MAC) or quint64
TimestampFieldSize(mac) == IF mac THEN 4 ELSE 8

\* static_cast<TimestampField>(t), stored natively; t is the eight bytes of
\* a 64-bit value, most significant first
StoreTimestampField(t, mac, le) ==
    LET field == SubSeq(t, 9 - TimestampFieldSize(mac), 8)
    IN  IF le THEN Reverse(field) ELSE field

\* buf with bytes written from offset at on; what falls past its end is
\* not in it
Overlay(buf, at, bytes) ==
    LET room == IF Len(buf) - at < Len(bytes) THEN Len(buf) - at ELSE Len(bytes)
    IN  SubSeq(buf, 1, at) \o SubSeq(bytes, 1, room) \o SubSeq(buf, at + room + 1, Len(buf))

\* int rawPacketSize = sizeof(IcmpEcho) + payloadSize + sizeof(struct ip)
RawPacketSize(payloadSize) == IcmpEchoSize + payloadSize + IpSize

\* int packetSize = sizeof(IcmpEcho) + payloadSize
PacketSize(payloadSize) == IcmpEchoSize + payloadSize

\* a slip: the destination is stored without htonl
IpHeader_DstHostOrder(identifier, address, payloadSize, le) ==
    <<4 * 16 + (IpSize \div 4), 0>>
        \o Store16(RawPacketSize(payloadSize) % 65536, le)
        \o Store16(htons(identifier, le), le)
        \o Store16(htons(0, le), le)
        \o <<255, 1, 0, 0>>
        \o <<0, 0, 0, 0>>
        \o Store32(address, le)

\* the IP header as lines 112-125 leave it
IpHeader(identifier, address, payloadSize, le) ==
    <<4 * 16 + (IpSize \div 4), 0>>
        \o Store16(RawPacketSize(payloadSize) % 65536, le)
        \o Store16(htons(identifier, le), le)
        \o Store16(htons(0, le), le)
        \o <<255, 1, 0, 0>>
        \o <<0, 0, 0, 0>>
        \o Store32(htonl(address, le), le)

\* a slip: identifier and sequence are stored without htons
EchoHeader_NativeOrder(identifier, nextSequence, le) ==
    <<8, 0, 0, 0>> \o Store16(identifier, le) \o Store16(nextSequence, le)

\* the ICMP header as lines 127-131 leave it, the checksum still zero
EchoHeader(identifier, nextSequence, le) ==
    <<8, 0, 0, 0>>
        \o Store16(htons(identifier, le), le)
        \o Store16(htons(nextSequence, le), le)

\* a slip: the sequence number is stepped in a wider integer
NextSequenceAfter_NoWrap(nextSequence) == nextSequence + 1

\* a slip: the sequence number is stepped twice
NextSequenceAfter_ByTwo(nextSequence) == (nextSequence + 2) % 65536

\* ++_nextSequence on a quint16
NextSequenceAfter(nextSequence) == (nextSequence + 1) % 65536

\* packet[sizeof(IcmpEcho)+i] = i
Filler(payloadSize) == [i \in 1 .. payloadSize |-> (i - 1) % 256]

\* the two timestamp fields as stored from &packet[sizeof(IcmpEcho)] on
TimestampBytes(now, mac, le) ==
    StoreTimestampField(now.sec, mac, le) \o StoreTimestampField(now.usec, mac, le)

\* the offsets of rawPacket the timestamp stores write to past its end
TimestampOverrun(payloadSize, mac) ==
    {i \in (IpSize + IcmpEchoSize) .. (IpSize + IcmpEchoSize + 2 * TimestampFieldSize(mac) - 1) :
        i >= RawPacketSize(payloadSize)}

\* a slip: the checksum is computed before the timestamp is written
EchoMessage_SumsBeforeTimestamp(identifier, nextSequence, payloadSize, now, mac, le) ==
    LET filled == EchoHeader(identifier, nextSequence, le) \o Filler(payloadSize)
        sum == calcChecksum(filled, PacketSize(payloadSize), le)
    IN  Overlay(Overlay(filled, IcmpChecksumOffset, Store16(sum, le)),
                IcmpEchoSize, TimestampBytes(now, mac, le))

\* the ICMP message (header and payload) with its checksum stored
EchoMessage(identifier, nextSequence, payloadSize, now, mac, le) ==
    LET unsummed == Overlay(EchoHeader(identifier, nextSequence, le) \o Filler(payloadSize),
                            IcmpEchoSize, TimestampBytes(now, mac, le))
        len == PacketSize(payloadSize)
        sum == calcChecksum(unsummed, len, le)
    IN  Overlay(unsummed, IcmpChecksumOffset, Store16(sum, le))

\* a slip: IP_DF is stored in host byte order on every platform
DontFragmentField_HostOrder(mac, le) == Store16(IP_DF, le)

\* ip->ip_off when fragmenting is not allowed: IP_DF (Q_OS_MAC) or htons(IP_DF)
DontFragmentField(mac, le) == IF mac THEN Store16(IP_DF, le) ELSE Store16(htons(IP_DF, le), le)

\* rawPacket as handed to sendto
RawPacket(identifier, nextSequence, args, now, mac, le) ==
    LET built == IpHeader(identifier, args.address, args.payloadSize, le)
                     \o EchoMessage(identifier, nextSequence, args.payloadSize, now, mac, le)
    IN  IF args.allowFragment THEN built
        ELSE Overlay(built, IpOffOffset, DontFragmentField(mac, le))

\* whether the call sets IP_MTU_DISCOVER on the socket
SetsPmtuDiscover(allowFragment, mac) == ~allowFragment /\ ~mac

\* a slip: a partial write counts as sent
SendtoSucceeded_AnyWrite(sent, rawPacketSize) == ~(sent < 0)

\* the return value once sendto has returned sent
SendtoSucceeded(sent, rawPacketSize) == ~(sent < 0) /\ ~(sent # rawPacketSize)

\* the warning after sendto
SendtoLog(env, rawPacketSize) ==
    IF env.sent < 0
    THEN IF env.errno = "EWOULDBLOCK"
         THEN <<"Failed to ping - would have blocked">>
         ELSE <<"Failed to ping - errno">>
    ELSE IF env.sent # rawPacketSize THEN <<"Only sent part of the ping">>
    ELSE <<>>

\* a slip: the documentation range is mocked like any other address
OutsideDocumentationRange_Always(address) == TRUE

\* (address & 0xFFFFFF00) != 0xC0000200
OutsideDocumentationRange(address) == SubSeq(address, 1, 3) # <<192, 0, 2>>

\* a slip: the socket is not looked at before building the packet
CannotSend_Never(self) == FALSE

\* if(!_icmpSocket) return false
CannotSend(self) == ~self.icmpSocket

\* a slip: the identifier is stepped instead of the sequence number
AfterBuild_StepsIdentifier(self) ==
    [self EXCEPT !.identifier = NextSequenceAfter(self.identifier)]

\* a slip: the socket is given up once a packet has been built
AfterBuild_DropsSocket(self) ==
    [self EXCEPT !.nextSequence = NextSequenceAfter(self.nextSequence),
                 !.icmpSocket = FALSE]

\* the object once the packet is built: the sequence number is consumed
AfterBuild(self) == [self EXCEPT !.nextSequence = NextSequenceAfter(self.nextSequence)]

\* what one call does: ret the return value, calls the system calls made,
\* packet and to the arguments of sendto, overrun the offsets written past
\* the buffer, self the object afterwards, timer the single shots started
Sent(ret, log, calls, packet, to, overrun, self, timer) ==
    [ret |-> ret, log |-> log, calls |-> calls, packet |-> packet, to |-> to,
     overrun |-> overrun, self |-> self, timer |-> timer]

\* env: setsockopt whether setsockopt(IP_MTU_DISCOVER) succeeds, sent and
\* errno what sendto returns (part: that many bytes short of the packet)
sendEchoRequest(self, args, now, env, b) ==
    LET size == RawPacketSize(args.payloadSize)
        packet == RawPacket(self.identifier, self.nextSequence, args, now,
                            b.mac, b.littleEndian)
        overrun == TimestampOverrun(args.payloadSize, b.mac)
        built == AfterBuild(self)
        to == Store32(htonl(args.address, b.littleEndian), b.littleEndian)
        sendto == [sent |-> IF env.sent = "all" THEN size
                            ELSE IF env.sent = "part" THEN size - 1 ELSE -1,
                   errno |-> env.errno]
    IN  IF b.unitTest
        THEN Sent(TRUE, IF OutsideDocumentationRange(args.address)
                        THEN <<"Mocking ping">> ELSE <<>>,
                  <<>>, <<>>, <<>>, {}, self,
                  IF OutsideDocumentationRange(args.address)
                  THEN <<args.address>> ELSE <<>>)
        ELSE IF CannotSend(self)
        THEN Sent(FALSE, <<>>, <<>>, <<>>, <<>>, {}, self, <<>>)
        ELSE IF SetsPmtuDiscover(args.allowFragment, b.mac) /\ ~env.setsockopt
        THEN Sent(FALSE, <<"Failed to set DF flag on ICMP socket">>, <<"setsockopt">>,
                  <<>>, <<>>, overrun, built, <<>>)
        ELSE Sent(SendtoSucceeded(sendto.sent, size), SendtoLog(sendto, size),
                  (IF SetsPmtuDiscover(args.allowFragment, b.mac)
                   THEN <<"setsockopt">> ELSE <<>>) \o <<"sendto">>,
                  packet, to, overrun,
                  [built EXCEPT !.pmtuDo =
                      @ \/ SetsPmtuDiscover(args.allowFragment, b.mac)],
                  <<>>)

(***************************************************************************)
(* The constructor.  rand is what QRandomGenerator::bounded(65535) gave;   *)
(* env says which of socket(), setsockopt(IP_HDRINCL) and fcntl(F_SETFL)   *)
(* succeed.                                                                *)
(***************************************************************************)
\* what bounded(std::numeric_limits<quint16>::max()) can give: 0..65534;
\* the two values drawn here are byte swaps of each other
RandomOutcomes == {258, 513}

\* socket() fails, or succeeds and each of the two calls on it succeeds or not
CtorOutcomes ==
    {[socket |-> TRUE, hdrincl |-> h, nonblock |-> n] : h, n \in BOOLEAN}
        \cup {[socket |-> FALSE, hdrincl |-> FALSE, nonblock |-> FALSE]}

\* static_cast<quint16>(...bounded(...))
InitialIdentifier(rand) == rand % 65536

\* the warnings of the constructor
CtorLog(env) ==
    (IF ~env.socket THEN <<"Failed to open ICMP socket">> ELSE <<>>)
        \o (IF ~env.hdrincl THEN <<"Failed to set IP_HDRINCL flag on ICMP socket">>
            ELSE <<>>)

\* the object after PosixPing::PosixPing()
PosixPing(rand, env, unitTest) ==
    [identifier |-> InitialIdentifier(rand),
     nextSequence |-> 0,
     icmpSocket |-> ~unitTest /\ env.socket,
     hdrincl |-> ~unitTest /\ env.socket /\ env.hdrincl,
     nonblock |-> ~unitTest /\ env.socket /\ env.nonblock,
     pmtuDo |-> FALSE,
     readNotifier |-> ~unitTest,
     alive |-> TRUE]

\* a slip: the object is gone but its socket and its notifier are not
\* released
Destroyed_LeaksSocket(self) == [self EXCEPT !.alive = FALSE]

\* the object after its destruction: the members are destroyed, the read
\* notifier first, then the socket handle, which closes the socket
Destroyed(self) ==
    [self EXCEPT !.alive = FALSE, !.readNotifier = FALSE, !.icmpSocket = FALSE]

\* what the constructor drew and did, kept for reference
Constructed(rand, env, unitTest) ==
    [rand |-> rand,
     env |-> env,
     log |-> IF unitTest THEN <<>> ELSE CtorLog(env)]

(***************************************************************************)
(* The datagrams the kernel delivers: an echo reply, with up to MaxFaults  *)
(* of its fields wrong.                                                    *)
(***************************************************************************)
SourceAddrs == {<<10, 0, 0, 1>>, <<192, 0, 2, 7>>}

WireIdentifiers == RandomOutcomes

Cuts == {"none", "icmp", "ip", "err"}

ReplyFields ==
    [ver : {4, 6}, ihl : {4, 5, 6}, proto : {1, 17}, src : SourceAddrs,
     type : {0, 8}, code : {0, 1}, id : WireIdentifiers, seq : {7},
     corrupt : BOOLEAN, payload : 0 .. MaxPayload, cut : Cuts]

Bit(b) == IF b THEN 1 ELSE 0

Faults(f) ==
    Bit(f.ver # 4) + Bit(f.ihl < 5) + Bit(f.proto # 1) + Bit(f.type # 0)
        + Bit(f.code # 0) + Bit(f.corrupt) + Bit(f.cut # "none")

RECURSIVE NetSum(_, _)
\* RFC 1071: the sum of the big-endian 16-bit words of bytes[i..], a last
\* odd byte padded with a zero byte on the right
NetSum(bytes, i) ==
    IF i > Len(bytes) THEN 0
    ELSE IF i = Len(bytes) THEN 256 * bytes[i]
    ELSE 256 * bytes[i] + bytes[i + 1] + NetSum(bytes, i + 2)

RECURSIVE EndAroundCarry(_)
EndAroundCarry(x) ==
    IF x < 65536 THEN x ELSE EndAroundCarry((x % 65536) + (x \div 65536))

\* the checksum a correct sender puts on the wire
InternetChecksum(bytes) == 65535 - EndAroundCarry(NetSum(bytes, 1))

Zeros(n) == [i \in 1 .. n |-> 0]

EchoDatagram(f) ==
    LET hdrLen == IF f.ihl * 4 < Ipv4Size THEN Ipv4Size ELSE f.ihl * 4
        ipHeader == <<f.ver * 16 + f.ihl, 0, 0, 0, 0, 0, 0, 0, 64, f.proto, 0, 0>>
                        \o f.src \o <<10, 0, 0, 2>> \o Zeros(hdrLen - Ipv4Size)
        payload == [i \in 1 .. f.payload |-> (7 * i + 90) % 256]
        unsummed == <<f.type, f.code, 0, 0, f.id \div 256, f.id % 256, 0, f.seq>>
                        \o payload
        sum == InternetChecksum(unsummed)
        low == IF f.corrupt THEN ((sum % 256) + 1) % 256 ELSE sum % 256
        icmp == [unsummed EXCEPT ![3] = sum \div 256, ![4] = low]
        all == ipHeader \o icmp
        read == CASE f.cut = "none" -> Len(all)
                  [] f.cut = "icmp" -> hdrLen + IcmpEchoSize - 1
                  [] f.cut = "ip" -> f.ihl * 4 - 1
                  [] f.cut = "err" -> -1
    IN  [read |-> read,
         bytes |-> IF f.cut = "err" THEN all ELSE SubSeq(all, 1, read)]

Datagrams == {EchoDatagram(f) : f \in {x \in ReplyFields : Faults(x) <= MaxFaults}}

\* the indeterminate byte of an uninitialized buffer position
GarbageBytes == {0, 255}

(***************************************************************************)
(* What the protocol calls a valid echo reply for a prober (RFC 791, RFC   *)
(* 792), read off the wire bytes; the checksum is not part of it.          *)
(***************************************************************************)
WireHeaderBytes(d) == (d.bytes[1] % 16) * 4

WellFormed(d) ==
    /\ d.read >= 20
    /\ d.bytes[1] \div 16 = 4
    /\ WireHeaderBytes(d) >= 20
    /\ WireHeaderBytes(d) + 8 <= d.read
    /\ d.bytes[10] = 1

IsValidReply(d, identifier) ==
    /\ WellFormed(d)
    /\ d.bytes[WireHeaderBytes(d) + 1] = 0
    /\ d.bytes[WireHeaderBytes(d) + 2] = 0
    /\ 256 * d.bytes[WireHeaderBytes(d) + 5] + d.bytes[WireHeaderBytes(d) + 6]
           = identifier

(***************************************************************************)
(* State.                                                                  *)
(***************************************************************************)
NoDatagram == [read |-> 0, bytes |-> <<>>]

NoArgs == [address |-> <<0, 0, 0, 0>>, payloadSize |-> 0, allowFragment |-> TRUE]

\* the system calls of a call all succeeding
NoEnv == [setsockopt |-> TRUE, sent |-> "all", errno |-> "none"]

NoLast ==
    [op |-> "none", p |-> 0, dgram |-> NoDatagram, emitted |-> <<>>, log |-> <<>>,
     reads |-> {}, args |-> NoArgs, ret |-> "none", calls |-> <<>>,
     packet |-> <<>>, to |-> <<>>, overrun |-> {}, before |-> 0, env |-> NoEnv,
     dropped |-> 0, sum |-> 0, word |-> 0, len |-> 0, accum |-> <<0, 0>>, wrapped |-> FALSE,
     ones |-> 0]

\* failed: the calls of sendEchoRequest that made a system call and
\* returned false
NoStats == [sends |-> 0, wakeups |-> 0, valid |-> 0, events |-> 0, failed |-> 0]

Builds == [littleEndian : BOOLEAN, mac : BOOLEAN, unitTest : BOOLEAN]

\* the state after constructing the probers ps
InitWith(ps, builds, outcomes) ==
    /\ build \in builds
    /\ \E rand \in [ps -> RandomOutcomes], env \in [ps -> outcomes] :
          /\ ctor = [p \in ps |-> Constructed(rand[p], env[p], build.unitTest)]
          /\ ping = [p \in ps |-> PosixPing(rand[p], env[p], build.unitTest)]
    /\ timers = [p \in ps |-> <<>>]
    /\ process = "running"
    /\ last = NoLast
    /\ stats = [p \in ps |-> NoStats]

(***************************************************************************)
(* The read notifier activates and onReadyRead runs: recv() returns the    *)
(* datagram d.                                                             *)
(***************************************************************************)
WakeUp(p, d, g) ==
    /\ process = "running"
    /\ ping[p].readNotifier
    /\ ping[p].icmpSocket
    /\ \E r \in {Activated(ping[p], build.littleEndian, d, g)} :
           /\ ping' = [ping EXCEPT ![p] = AfterRead(@, r)]
           /\ last' = [NoLast EXCEPT !.op = "onReadyRead", !.p = p, !.dgram = d,
                                     !.emitted = r.emitted,
                                     !.log = r.log, !.reads = r.reads]
           /\ stats' = [stats EXCEPT
                  ![p].wakeups = @ + 1,
                  ![p].valid = @ + Bit(IsValidReply(d, ping[p].identifier)),
                  ![p].events = @ + Len(r.emitted)]
    /\ UNCHANGED <<build, ctor, timers, process>>

(***************************************************************************)
(* A call of sendEchoRequest(address, payloadSize, allowFragment) at time  *)
(* now.  Where the timestamp stores ran past the buffer the behaviour is   *)
(* undefined: the stores land in the allocator's slack and the call goes   *)
(* on, or the heap is corrupted and the process aborts.  last.ret is the   *)
(* return value, "true" or "false", or "crashed".                          *)
(***************************************************************************)
Send(p, args, now, env, heap) ==
    /\ process = "running"
    /\ ping[p].alive
    /\ \E r \in {sendEchoRequest(ping[p], args, now, env, build)} :
       \E crash \in {r.overrun # {} /\ heap = "abort"} :
           /\ ping' = [ping EXCEPT ![p] = r.self]
           /\ timers' = [timers EXCEPT ![p] = @ \o r.timer]
           /\ process' = IF crash THEN "crashed" ELSE "running"
           /\ last' = [NoLast EXCEPT !.op = "sendEchoRequest", !.p = p, !.args = args,
                                     !.ret = IF crash THEN "crashed"
                                             ELSE IF r.ret THEN "true" ELSE "false",
                                     !.log = r.log, !.calls = r.calls,
                                     !.packet = r.packet, !.to = r.to,
                                     !.overrun = r.overrun,
                                     !.before = ping[p].nextSequence,
                                     !.env = env]
           /\ stats' = [stats EXCEPT
                  ![p].sends = @ + 1,
                  ![p].failed = @ + Bit(~crash /\ ~r.ret /\ r.calls # <<>>)]
    /\ UNCHANGED <<build, ctor>>

(***************************************************************************)
(* A single shot of the unit-test build (line 95) times out: its functor   *)
(* emits receivedReply(address).  The shots all wait 30 ms, so they fire   *)
(* in the order they were started.                                         *)
(***************************************************************************)
TimerFires(p) ==
    /\ process = "running"
    /\ timers[p] # <<>>
    /\ timers' = [timers EXCEPT ![p] = Tail(@)]
    /\ last' = [NoLast EXCEPT !.op = "timer", !.p = p, !.emitted = <<Head(timers[p])>>]
    /\ stats' = [stats EXCEPT ![p].events = @ + 1]
    /\ UNCHANGED <<build, ctor, ping, process>>

(***************************************************************************)
(* The prober is destroyed.  The single shots were started with the prober *)
(* as their context object, so those still pending are dropped with it.    *)
(***************************************************************************)
Destroy(p) ==
    /\ process = "running"
    /\ ping[p].alive
    /\ ping' = [ping EXCEPT ![p] = Destroyed(@)]
    /\ timers' = [timers EXCEPT ![p] = <<>>]
    /\ last' = [NoLast EXCEPT !.op = "destroy", !.p = p, !.dropped = Len(timers[p])]
    /\ UNCHANGED <<build, ctor, process, stats>>

\* the arguments of the calls
SendArgs ==
    [address : {<<10, 0, 0, 1>>, <<192, 0, 2, 7>>}, payloadSize : {0, 8, 16, 17},
     allowFragment : BOOLEAN]

\* gettimeofday: seconds and microseconds, eight bytes each
Nows == {[sec |-> <<0, 0, 0, 0, 101, 67, 33, 16>>, usec |-> <<0, 0, 0, 0, 0, 11, 173, 1>>]}

\* what setsockopt(IP_MTU_DISCOVER) and sendto return
SendEnvs ==
    {[setsockopt |-> o, sent |-> r.sent, errno |-> r.errno] :
        o \in BOOLEAN,
        r \in {[sent |-> "all", errno |-> "none"], [sent |-> "part", errno |-> "none"],
               [sent |-> "none", errno |-> "EWOULDBLOCK"],
               [sent |-> "none", errno |-> "EMSGSIZE"]}}

HeapOutcomes == {"slack", "abort"}

\* the outcomes that matter to a call: those of the system calls it makes
\* (a socket left blocking never reports EWOULDBLOCK), the others at their
\* first value
SendEnvsFor(self, args, b) ==
    LET setsockopt == ~b.unitTest /\ self.icmpSocket
                          /\ SetsPmtuDiscover(args.allowFragment, b.mac)
        sendto == ~b.unitTest /\ self.icmpSocket
    IN  {e \in SendEnvs :
            /\ setsockopt \/ e.setsockopt
            /\ (sendto /\ e.setsockopt) \/ e.sent = "all"
            /\ e.errno = "EWOULDBLOCK" => self.nonblock}

HeapOutcomesFor(self, args, b) ==
    IF ~b.unitTest /\ self.icmpSocket /\ TimestampOverrun(args.payloadSize, b.mac) # {}
    THEN HeapOutcomes
    ELSE {"slack"}

\* the arguments of the calls of the whole-system specification
FewSendArgs ==
    [address : {<<10, 0, 0, 1>>}, payloadSize : {0, 16}, allowFragment : BOOLEAN]

\* the indeterminate byte of the specifications with calls: onReadyRead
\* loads nothing beyond the bytes read (checked in the listener-only
\* specification over GarbageBytes), so one value is enough
FewGarbageBytes == {255}

\* the datagrams of the multi-step specifications: the valid reply and each
\* of its single faults, from one source, without payload or IP options
FewDatagrams ==
    {EchoDatagram(f) : f \in {x \in ReplyFields :
        Faults(x) <= 1 /\ x.src = <<10, 0, 0, 1>> /\ x.payload = 0 /\ x.ihl <= 5}}

(***************************************************************************)
(* The whole system: one prober, calls of sendEchoRequest and wake-ups of  *)
(* the listener in any order.                                              *)
(***************************************************************************)
MainBuilds == {b \in Builds : ~b.unitTest}

Init == InitWith({1}, MainBuilds, CtorOutcomes)

Next ==
    \/ \E p \in DOMAIN ping, args \in FewSendArgs, now \in Nows :
          \E env \in SendEnvsFor(ping[p], args, build),
             heap \in HeapOutcomesFor(ping[p], args, build) :
             /\ stats[p].sends < MaxSends
             /\ Send(p, args, now, env, heap)
    \/ \E p \in DOMAIN ping, d \in FewDatagrams, g \in FewGarbageBytes :
          /\ stats[p].wakeups < MaxWakeups
          /\ WakeUp(p, d, g)

Spec == Init /\ [][Next]_vars

(***************************************************************************)
(* The listener alone: one prober whose construction succeeded, and every  *)
(* datagram.                                                               *)
(***************************************************************************)
ListenBuilds == {b \in Builds : ~b.unitTest /\ ~b.mac}

ListenInit ==
    InitWith({1}, ListenBuilds, {e \in CtorOutcomes : e.socket /\ e.hdrincl /\ e.nonblock})

ListenNext ==
    \E p \in DOMAIN ping, d \in Datagrams, g \in GarbageBytes :
        /\ stats[p].wakeups < MaxListenWakeups
        /\ WakeUp(p, d, g)

SpecListen == ListenInit /\ [][ListenNext]_vars

(***************************************************************************)
(* Two probers in one process, each with its own raw socket: the kernel    *)
(* hands any datagram to either.                                           *)
(***************************************************************************)
PairInit ==
    InitWith({1, 2}, ListenBuilds, {e \in CtorOutcomes : e.socket /\ e.hdrincl /\ e.nonblock})

PairNext ==
    \E p \in DOMAIN ping, d \in FewDatagrams, g \in GarbageBytes :
        /\ stats[p].wakeups < MaxWakeups
        /\ WakeUp(p, d, g)

SpecPair == PairInit /\ [][PairNext]_vars

(***************************************************************************)
(* The sequence counter over many calls: one prober on a Linux host of     *)
(* either byte order, the same call again and again.  Every send is accepted,     *)
(* except that the call that wraps the counter may also find the socket    *)
(* full.                                                                   *)
(***************************************************************************)
WrapBuilds == {b \in Builds : ~b.unitTest /\ ~b.mac}

WrapInit ==
    /\ InitWith({1}, WrapBuilds, {e \in CtorOutcomes : e.socket /\ e.hdrincl /\ e.nonblock})
    /\ ctor[1].rand = 258

WrapArgs == [address |-> <<10, 0, 0, 1>>, payloadSize |-> 16, allowFragment |-> TRUE]

WrapEnvs(nextSequence) ==
    {e \in SendEnvs :
        /\ e.setsockopt
        /\ e.sent = "all" \/ (nextSequence = 65535 /\ e.errno = "EWOULDBLOCK")}

WrapNext ==
    \E p \in DOMAIN ping, now \in Nows :
        \E env \in WrapEnvs(ping[p].nextSequence) :
            /\ stats[p].sends < MaxWrapSends
            /\ Send(p, WrapArgs, now, env, "slack")

SpecWrap == WrapInit /\ [][WrapNext]_vars

(***************************************************************************)
(* calcChecksum alone: a buffer, its checksum, the checksum stored in the  *)
(* checksum field as sendEchoRequest stores it (pEcho->checksum = ...),    *)
(* and the checksum of the result as onReadyRead computes it.  last.packet *)
(* is the buffer, last.sum the value calcChecksum returned.                *)
(***************************************************************************)
SumBytes == {0, 1, 128, 255}

RECURSIVE Buffers(_)
\* the buffers of n bytes
Buffers(n) ==
    IF n = 0 THEN {<<>>}
    ELSE {b \o <<x>> : b \in Buffers(n - 1), x \in SumBytes}

SumInit ==
    /\ build \in ListenBuilds
    /\ ctor = <<>>
    /\ ping = <<>>
    /\ timers = <<>>
    /\ process = "running"
    /\ \E n \in 1 .. MaxSumLen :
           \E data \in Buffers(n) :
               last = [NoLast EXCEPT !.op = "buffer", !.packet = data]
    /\ stats = <<>>

\* calcChecksum(data, len) over the whole buffer
SumBuffer ==
    /\ last.op \in {"buffer", "stored"}
    /\ last' = [last EXCEPT
           !.op = IF last.op = "buffer" THEN "summed" ELSE "verified",
           !.sum = calcChecksum(last.packet, Len(last.packet), build.littleEndian)]
    /\ UNCHANGED <<build, ctor, ping, timers, process, stats>>

\* pEcho->checksum = the sum, when the buffer has a checksum field and it
\* is zero
StoreChecksum ==
    /\ last.op = "summed"
    /\ Len(last.packet) >= IcmpChecksumOffset + 2
    /\ SubSeq(last.packet, IcmpChecksumOffset + 1, IcmpChecksumOffset + 2) = <<0, 0>>
    /\ last' = [last EXCEPT
           !.op = "stored",
           !.packet = Overlay(@, IcmpChecksumOffset, Store16(last.sum, build.littleEndian))]
    /\ UNCHANGED <<build, ctor, ping, timers, process, stats>>

SumNext == SumBuffer \/ StoreChecksum

SpecChecksum == SumInit /\ [][SumNext]_vars

(***************************************************************************)
(* calcChecksum over a long buffer, one statement per step: a buffer whose *)
(* 16-bit words all have the value last.word, of any length up to          *)
(* MaxFoldLen.  last.len counts the bytes summed, last.accum is the        *)
(* accumulator, last.wrapped whether it has passed 2^32.  last.ones is the *)
(* one's complement sum of RFC 1071 of the same words, the carry added     *)
(* back at every addition.                                                 *)
(***************************************************************************)
FoldWords == {1, 256, 65281, 65535}

TailBytes == {1, 255}

FoldInit ==
    /\ build \in {b \in ListenBuilds : b.littleEndian}
    /\ ctor = <<>>
    /\ ping = <<>>
    /\ timers = <<>>
    /\ process = "running"
    /\ \E w \in FoldWords : last = [NoLast EXCEPT !.op = "summing", !.word = w]
    /\ stats = <<>>

\* accum += *words; ++words
SumWord ==
    /\ last.op = "summing"
    /\ last.len + 2 <= MaxFoldLen
    /\ last' = [last EXCEPT
           !.len = @ + 2,
           !.accum = AccumAdd(@, last.word),
           !.wrapped = @ \/ AccumWraps(last.accum, last.word),
           !.ones = EndAroundCarry(@ + last.word)]
    /\ UNCHANGED <<build, ctor, ping, timers, process, stats>>

\* the loop ends: the trailing byte of an odd length, the two folding
\* passes and the complement.  tail is <<>> or holds the trailing byte
SumEnd(tail) ==
    /\ last.op = "summing"
    /\ last.len + Len(tail) <= MaxFoldLen
    /\ \E accum \in {IF tail = <<>> THEN last.accum ELSE AccumAdd(last.accum, tail[1])} :
           last' = [last EXCEPT
               !.op = "summed",
               !.len = @ + Len(tail),
               !.accum = FoldCarries(accum),
               !.wrapped = @ \/ (tail # <<>> /\ AccumWraps(last.accum, tail[1])),
               !.ones = IF tail = <<>> THEN @ ELSE EndAroundCarry(@ + tail[1]),
               !.sum = ComplementLow16(FoldCarries(accum))]
    /\ UNCHANGED <<build, ctor, ping, timers, process, stats>>

FoldNext ==
    \/ SumWord
    \/ \E tail \in {<<>>} \cup {<<t>> : t \in TailBytes} : SumEnd(tail)

SpecFold == FoldInit /\ [][FoldNext]_vars

(***************************************************************************)
(* The life of one prober, in the build with the socket and in the         *)
(* unit-test build: calls, wake-ups, single shots timing out, and the      *)
(* destruction, after which nothing of the prober is used.                 *)
(***************************************************************************)
LifeBuilds == {b \in Builds : ~b.mac /\ b.littleEndian}

LifeInit ==
    InitWith({1}, LifeBuilds, {e \in CtorOutcomes : e.socket /\ e.hdrincl /\ e.nonblock})

LifeSendArgs ==
    [address : {<<10, 0, 0, 1>>, <<192, 0, 2, 7>>}, payloadSize : {16},
     allowFragment : {TRUE}]

LifeNext ==
    \/ \E p \in DOMAIN ping, args \in LifeSendArgs, now \in Nows :
          \E env \in SendEnvsFor(ping[p], args, build) :
             /\ stats[p].sends < MaxSends
             /\ Send(p, args, now, env, "slack")
    \/ \E p \in DOMAIN ping, d \in FewDatagrams, g \in FewGarbageBytes :
          /\ stats[p].wakeups < MaxWakeups
          /\ WakeUp(p, d, g)
    \/ \E p \in DOMAIN ping : TimerFires(p)
    \/ \E p \in DOMAIN ping : Destroy(p)

SpecLife == LifeInit /\ [][LifeNext]_vars

(***************************************************************************)
(* The single call: one prober whose construction succeeded, and calls of  *)
(* sendEchoRequest with every argument of SendArgs (two addresses, even    *)
(* and odd payload sizes, below and above the size of the timestamp).      *)
(***************************************************************************)
SendOnceInit ==
    InitWith({1}, MainBuilds, {e \in CtorOutcomes : e.socket /\ e.hdrincl /\ e.nonblock})

SendOnceNext ==
    \E p \in DOMAIN ping, args \in SendArgs, now \in Nows :
        \E env \in SendEnvsFor(ping[p], args, build),
           heap \in HeapOutcomesFor(ping[p], args, build) :
           /\ stats[p].sends < MaxRichSends
           /\ Send(p, args, now, env, heap)

SpecSend == SendOnceInit /\ [][SendOnceNext]_vars

(***************************************************************************)
(* Outstanding requests: one prober on a Linux host sends to two           *)
(* addresses, and echo replies from either address arrive at any time,     *)
(* before, between and after the calls, with its identifier or another     *)
(* and with a sequence field that matches a request (0, 1) or none (7).    *)
(***************************************************************************)
ReplySequences == {0, 1, 7}

OutstandingReplies ==
    {EchoDatagram([f EXCEPT !.seq = q]) :
        f \in {x \in ReplyFields : Faults(x) = 0 /\ x.payload = 0 /\ x.ihl = 5},
        q \in ReplySequences}

OutstandingInit ==
    InitWith({1}, WrapBuilds, {e \in CtorOutcomes : e.socket /\ e.hdrincl /\ e.nonblock})

OutstandingNext ==
    \/ \E p \in DOMAIN ping, args \in LifeSendArgs, now \in Nows :
          \E env \in SendEnvsFor(ping[p], args, build) :
             /\ stats[p].sends < MaxSends
             /\ Send(p, args, now, env, "slack")
    \/ \E p \in DOMAIN ping, d \in OutstandingReplies, g \in FewGarbageBytes :
          /\ stats[p].wakeups < MaxWakeups
          /\ WakeUp(p, d, g)

SpecOutstanding == OutstandingInit /\ [][OutstandingNext]_vars

(***************************************************************************)
(* Properties.  They speak of the last wake-up through `last`, and read    *)
(* the datagram off its wire bytes (network byte order), not through the   *)
(* loads of onReadyRead.                                                   *)
(***************************************************************************)
Woke == last.op = "onReadyRead"

\* the source address of the IP header, as a host value
WireSource(d) == <<d.bytes[13], d.bytes[14], d.bytes[15], d.bytes[16]>>

WireType(d) == d.bytes[WireHeaderBytes(d) + 1]

WireCode(d) == d.bytes[WireHeaderBytes(d) + 2]

WireIdentifier(d) ==
    256 * d.bytes[WireHeaderBytes(d) + 5] + d.bytes[WireHeaderBytes(d) + 6]

\* the ICMP segment of a well-formed datagram
WireIcmp(d) == SubSeq(d.bytes, WireHeaderBytes(d) + 1, d.read)

\* RFC 1071: the segment sums to all ones
WireChecksumCorrect(d) == EndAroundCarry(NetSum(WireIcmp(d), 1)) = 65535

\* what calcChecksum gives for the ICMP segment of a well-formed datagram
ValidatesTo(d, le) ==
    LET seg == WireIcmp(d)
    IN  calcChecksum(seg, Len(seg), le)

\* the malformed datagrams of the claim
Malformed(d) ==
    \/ d.read < 20
    \/ d.bytes[1] \div 16 # 4
    \/ WireHeaderBytes(d) < 20
    \/ WireHeaderBytes(d) > d.read
    \/ d.read - WireHeaderBytes(d) < 8

\* C1: every buffer offset onReadyRead loads from (IP version/IHL, protocol,
\* source address, ICMP type/code/identifier, and all calcChecksum sums) is
\* below the number of bytes read.
C1_ReadsInBounds ==
    Woke => \A i \in last.reads : 0 <= i /\ i < last.dgram.read /\ i < RecvBufferSize

\* a reply was emitted for a datagram of odd ICMP length, whose last byte
\* (the trailing byte of calcChecksum) was loaded
C1_Witness ==
    /\ Woke
    /\ last.emitted # <<>>
    /\ (last.dgram.read - WireHeaderBytes(last.dgram)) % 2 = 1
    /\ (last.dgram.read - 1) \in last.reads
    /\ {0, 9, 12, 15} \subseteq last.reads

\* C2: a datagram shorter than 20 bytes, of version other than 4, of header
\* length below 20 or above the bytes read, or with fewer than 8 bytes after
\* the IP header, is rejected: no receivedReply, and a warning.
C2_MalformedRejected ==
    (Woke /\ last.dgram.read >= 0 /\ Malformed(last.dgram))
        => (last.emitted = <<>> /\ Len(last.log) = 1)

\* a datagram cut one byte short of the ICMP echo header, whose type, code
\* and identifier (all within the bytes read) are those of our reply
C2_Witness ==
    /\ Woke
    /\ last.dgram.read >= 20
    /\ last.dgram.read = WireHeaderBytes(last.dgram) + 7
    /\ WireHeaderBytes(last.dgram) >= 20
    /\ last.dgram.bytes[1] \div 16 = 4
    /\ last.dgram.bytes[10] = 1
    /\ WireType(last.dgram) = 0
    /\ WireCode(last.dgram) = 0
    /\ WireIdentifier(last.dgram) = ping[last.p].identifier
    /\ last.emitted = <<>>

\* C3: a well-formed echo reply (type 0, code 0) with the prober's identifier
\* and a correct checksum fires exactly one receivedReply, carrying the
\* source address of the IP header as a host value, and logs nothing.
C3_ValidReplyFires ==
    (Woke /\ IsValidReply(last.dgram, ping[last.p].identifier)
          /\ WireChecksumCorrect(last.dgram))
        => last.emitted = <<WireSource(last.dgram)>>

\* the reply of 10.0.0.1 on a little-endian host
C3_Witness ==
    /\ Woke
    /\ build.littleEndian
    /\ IsValidReply(last.dgram, ping[last.p].identifier)
    /\ WireChecksumCorrect(last.dgram)
    /\ last.log = <<>>
    /\ last.emitted = <<(<<10, 0, 0, 1>>)>>

\* C7: a well-formed ICMP datagram of type other than 0 or code other than 0
\* fires no receivedReply, whatever its identifier and checksum.
C7_NonReplyIgnored ==
    (Woke /\ WellFormed(last.dgram)
          /\ (WireType(last.dgram) # 0 \/ WireCode(last.dgram) # 0))
        => last.emitted = <<>>

\* an echo request (type 8) with our identifier and a correct checksum
C7_Witness ==
    /\ Woke
    /\ WellFormed(last.dgram)
    /\ WireType(last.dgram) = 8
    /\ WireCode(last.dgram) = 0
    /\ WireIdentifier(last.dgram) = ping[last.p].identifier
    /\ WireChecksumCorrect(last.dgram)
    /\ last.log = <<>>
    /\ last.emitted = <<>>

\* C8: a valid echo reply with the prober's identifier whose checksum
\* validates to a nonzero value still fires receivedReply; the mismatch is
\* logged and nothing else.
C8_CorruptStillFires ==
    (Woke /\ IsValidReply(last.dgram, ping[last.p].identifier)
          /\ ValidatesTo(last.dgram, build.littleEndian) # 0)
        => /\ last.emitted = <<WireSource(last.dgram)>>
           /\ last.log = <<"Received corrupt ICMP packet">>

\* a reply with a wrong checksum on the wire
C8_Witness ==
    /\ Woke
    /\ IsValidReply(last.dgram, ping[last.p].identifier)
    /\ ~WireChecksumCorrect(last.dgram)
    /\ ValidatesTo(last.dgram, build.littleEndian) # 0
    /\ Len(last.emitted) = 1

\* C4: with two probers of different identifiers, a well-formed datagram
\* carrying the identifier of the one never fires receivedReply of the
\* other, whenever it is delivered.
C4_IdentifierIsolation ==
    \A q \in DOMAIN ping :
        (Woke /\ q # last.p /\ ping[q].identifier # ping[last.p].identifier
              /\ WellFormed(last.dgram)
              /\ WireIdentifier(last.dgram) = ping[q].identifier)
            => last.emitted = <<>>

\* prober 2 has fired for its own reply, and prober 1 has since read a reply
\* meant for prober 2
C4_Witness ==
    /\ Woke
    /\ last.p = 1
    /\ DOMAIN ping = {1, 2}
    /\ ping[1].identifier # ping[2].identifier
    /\ IsValidReply(last.dgram, ping[2].identifier)
    /\ WireChecksumCorrect(last.dgram)
    /\ last.emitted = <<>>
    /\ stats[2].events = 1
    /\ stats[1].events = 0

\* C5: two probers constructed in the same process have different
\* identifiers.
C5_DistinctIdentifiers ==
    \A p, q \in DOMAIN ping : p # q => ping[p].identifier # ping[q].identifier

\* C6: the identifier is the one drawn at construction, after any calls of
\* sendEchoRequest and any wake-ups, whatever their outcome.
C6_IdentifierFixed ==
    \A p \in DOMAIN ping : ping[p].identifier = ctor[p].rand % 65536

\* two calls that built a packet, the last one failing, and a wake-up
C6_Witness ==
    /\ last.op = "sendEchoRequest"
    /\ last.ret = "false"
    /\ ping[1].nextSequence = 2
    /\ stats[1].wakeups >= 1
    /\ stats[1].events >= 1

\* C9: a wake-up emits receivedReply at most once, and a prober's events
\* never outnumber the valid replies (nor the datagrams) it has read.
C9_AtMostOncePerValidReply ==
    /\ Woke => Len(last.emitted) <= 1
    /\ \A p \in DOMAIN ping :
          /\ stats[p].events <= stats[p].valid
          /\ stats[p].valid <= stats[p].wakeups

\* two datagrams read, one of them a valid reply
C9_Witness ==
    /\ stats[1].wakeups = 2
    /\ stats[1].valid = 1
    /\ stats[1].events = 1

\* what a construction failure was
CtorFailed(p) == ~ctor[p].env.socket \/ ~ctor[p].env.hdrincl \/ ~ctor[p].env.nonblock

Logged(p, text) == \E i \in 1 .. Len(ctor[p].log) : ctor[p].log[i] = text

SentBy(p) == last.op = "sendEchoRequest" /\ last.p = p

\* C10 as claimed: after a failure of socket(), of setting IP_HDRINCL or of
\* setting O_NONBLOCK in the constructor, no sendEchoRequest returns true.
C10_AnyFailureDegrades ==
    \A p \in DOMAIN ping : (CtorFailed(p) /\ SentBy(p)) => last.ret # "true"

\* C10 as amended: only a failure of socket() degrades the prober: its
\* socket stays invalid and every sendEchoRequest returns false without a
\* system call; that failure and a failure to set IP_HDRINCL are logged.
C10_SocketFailureDegrades ==
    \A p \in DOMAIN ping :
        /\ ~ctor[p].env.socket
              => /\ Logged(p, "Failed to open ICMP socket")
                 /\ ~ping[p].icmpSocket
                 /\ SentBy(p) => (last.ret = "false" /\ last.calls = <<>>)
        /\ ~ctor[p].env.hdrincl
              => Logged(p, "Failed to set IP_HDRINCL flag on ICMP socket")

\* the second call on a prober whose socket() failed
C10_Witness ==
    /\ ~ctor[1].env.socket
    /\ SentBy(1)
    /\ stats[1].sends = 2
    /\ last.ret = "false"

Calls(c) == Cardinality({i \in 1 .. Len(last.calls) : last.calls[i] = c})

\* C12: a call on an open socket that returns makes at most one sendto; it
\* returns true exactly if that sendto wrote the whole packet, and false
\* if the send would block, failed otherwise, wrote less than the packet,
\* or setting the don't-fragment socket option failed (then without sendto).
C12_TrueIffFullWrite ==
    \A p \in DOMAIN ping :
        (SentBy(p) /\ ping[p].icmpSocket /\ last.ret # "crashed")
            => /\ Calls("sendto") <= 1
               /\ last.ret \in {"true", "false"}
               /\ last.ret = "true" <=> (Calls("sendto") = 1 /\ last.env.sent = "all")
               /\ (Calls("setsockopt") = 1 /\ ~last.env.setsockopt)
                     => (last.ret = "false" /\ Calls("sendto") = 0)
               /\ (Calls("sendto") = 1 /\ last.env.sent = "none"
                       /\ last.env.errno = "EWOULDBLOCK")
                     => last.log = <<"Failed to ping - would have blocked">>

\* a don't-fragment request on Linux whose sendto wrote all but one byte,
\* after a call that returned true
C12_Witness ==
    /\ SentBy(1)
    /\ ~build.mac
    /\ stats[1].sends = 2
    /\ stats[1].failed = 1
    /\ last.calls = <<"setsockopt", "sendto">>
    /\ last.env.sent = "part"
    /\ last.ret = "false"
    /\ last.log = <<"Only sent part of the ping">>

\* C13: once a call has failed after a system call (the don't-fragment
\* option could not be set, the send would block or failed, or the write was
\* partial), the socket is still open, the identifier is the one drawn at
\* construction, the listener is still registered, and a call whose system
\* calls all succeed returns true.
C13_FailureLeavesUsable ==
    \A p \in DOMAIN ping :
        (stats[p].failed > 0 /\ process = "running")
            => /\ ping[p].icmpSocket
               /\ ping[p].readNotifier
               /\ ping[p].identifier = InitialIdentifier(ctor[p].rand)
               /\ (SentBy(p) /\ last.env.setsockopt /\ last.env.sent = "all")
                     => (last.ret = "true" /\ Calls("sendto") = 1)

\* a call that returned true after a failed call, on a prober that has
\* also emitted a reply
C13_Witness ==
    /\ SentBy(1)
    /\ stats[1].sends = 2
    /\ stats[1].failed = 1
    /\ stats[1].events >= 1
    /\ last.ret = "true"
    /\ ~last.args.allowFragment

\* C14: every call of sendEchoRequest on an open socket steps nextSequence
\* by exactly one modulo 65536, whether it then returns true or fails at
\* the don't-fragment option, at the send or at a partial write; wake-ups
\* do not touch it.
C14_OneStepPerBuiltPacket ==
    \A p \in DOMAIN ping :
        /\ (process = "running" /\ ping[p].icmpSocket)
              => ping[p].nextSequence = stats[p].sends % 65536
        /\ (SentBy(p) /\ ping[p].icmpSocket /\ last.ret # "crashed")
              => ping[p].nextSequence = (last.before + 1) % 65536

\* two calls that failed, the last at the don't-fragment option, with a
\* wake-up in between or around them
C14_Witness ==
    /\ SentBy(1)
    /\ stats[1].failed = 2
    /\ stats[1].wakeups >= 1
    /\ last.ret = "false"
    /\ last.calls = <<"setsockopt">>
    /\ last.before = 1
    /\ ping[1].nextSequence = 2

\* C15: after 65536 calls of sendEchoRequest that built a packet,
\* nextSequence is back at its initial value 0, and each later call steps
\* it by one again.
C15_SequenceWraps ==
    \A p \in DOMAIN ping :
        (ping[p].icmpSocket /\ stats[p].sends >= 65536)
            => /\ ping[p].nextSequence = stats[p].sends - 65536
               /\ stats[p].sends = 65536 => ping[p].nextSequence = 0
               /\ (SentBy(p) /\ stats[p].sends > 65536)
                     => ping[p].nextSequence = last.before + 1

\* two calls after the wrap, the wrapping call having failed
C15_Witness ==
    /\ SentBy(1)
    /\ stats[1].sends = 65538
    /\ stats[1].failed = 1
    /\ last.before = 1
    /\ ping[1].nextSequence = 2

\* C16: for a buffer of even length with a zero checksum field, storing
\* calcChecksum of the buffer in the field and running calcChecksum over the
\* whole buffer again gives zero.
C16_ChecksumRoundTrip ==
    (last.op = "verified" /\ Len(last.packet) % 2 = 0) => last.sum = 0

\* six bytes whose words carry out of 16 bits, on a little-endian host
C16_Witness ==
    /\ last.op = "verified"
    /\ build.littleEndian
    /\ Len(last.packet) = 6
    /\ last.packet[1] = 255
    /\ last.packet[2] = 255
    /\ last.packet[5] = 128
    /\ last.packet[6] = 255
    /\ last.packet[3] # last.packet[4]
    /\ last.sum = 0

RECURSIVE ByteSum(_, _, _)
\* the first n bytes of data, each counted once: a byte of a complete native
\* word at its place in the word, the byte after the last complete word (odd
\* length) as the value it is
ByteSum(data, n, le) ==
    IF n = 0 THEN 0
    ELSE ByteSum(data, n - 1, le)
             + (IF n = Len(data) /\ n % 2 = 1 THEN data[n]
                ELSE IF (n % 2 = 1) = le THEN data[n]
                ELSE 256 * data[n])

\* C18: for a buffer of odd length calcChecksum is the complement of the
\* folded sum of the floor(len/2) complete words and of the last byte as a
\* standalone value: every byte is counted exactly once.
C18_OddByteOnce ==
    (last.op = "summed" /\ Len(last.packet) % 2 = 1)
        => last.sum = 65535 - EndAroundCarry(ByteSum(last.packet, Len(last.packet),
                                                     build.littleEndian))

\* five bytes, the last one nonzero, on a big-endian host
C18_Witness ==
    /\ last.op = "summed"
    /\ ~build.littleEndian
    /\ Len(last.packet) = 5
    /\ last.packet[5] = 128
    /\ last.packet[1] = 255
    /\ last.sum # 65535

\* C17: for every buffer of up to 64 KiB the 32-bit accumulator never
\* passes 2^32, the two folding passes leave nothing above its low 16 bits,
\* and the result is the complement of the one's complement sum of RFC
\* 1071 (carries folded until none remains).
C17_TwoFoldsSuffice ==
    /\ last.op \in {"summing", "summed"} => ~last.wrapped
    /\ last.op = "summed"
          => /\ last.len <= MaxFoldLen
             /\ last.accum[1] = 0
             /\ last.sum = 65535 - last.ones

\* 64 KiB of 0xFF bytes: the largest sum
C17_Witness ==
    /\ last.op = "summed"
    /\ last.word = 65535
    /\ last.len = 65536
    /\ last.sum = 0

\* C19: once the prober is destroyed its socket is released, its listener
\* and its pending single shots are gone, and no receivedReply is emitted
\* for it any more, whatever arrives or was pending.
C19_NoReplyAfterDestroy ==
    /\ [](\A p \in DOMAIN ping :
             ~ping[p].alive
                 => (~ping[p].icmpSocket /\ ~ping[p].readNotifier /\ timers[p] = <<>>))
    /\ [][\A p \in DOMAIN ping :
             ~ping[p].alive
                 => /\ stats'[p].events = stats[p].events
                    /\ last'.emitted = <<>>
                    /\ ~ping'[p].alive]_vars

\* a prober destroyed with a single shot pending, after it had emitted a
\* reply
C19_Witness ==
    /\ last.op = "destroy"
    /\ ~ping[1].alive
    /\ last.dropped = 1
    /\ stats[1].events = 1
    /\ stats[1].sends = 2

\* C20: every store sendEchoRequest makes while it builds the packet (IP
\* header, ICMP header, filler, the two timestamp fields) is inside the
\* buffer of sizeof(struct ip) + sizeof(IcmpEcho) + payloadSize bytes.
C20_WritesInBounds ==
    \A p \in DOMAIN ping : SentBy(p) => last.overrun = {}

\* C21: a call with allowFragment = true hands its packet to sendto on a
\* socket that is not in the forced path-MTU-discovery mode
\* (IP_PMTUDISC_DO), whatever calls preceded it.
C21_DontFragmentDoesNotLeak ==
    \A p \in DOMAIN ping :
        (SentBy(p) /\ last.args.allowFragment /\ Calls("sendto") = 1
             /\ last.ret = "true")
            => ~ping[p].pmtuDo

\* ip_off of a packet as the kernel it is handed to reads it: Linux takes the
\* header fields of an IP_HDRINCL packet in network byte order, macOS takes
\* ip_off in host byte order
KernelFragmentField(packet, mac, le) ==
    IF mac THEN Load16(packet[IpOffOffset + 1], packet[IpOffOffset + 2], le)
    ELSE 256 * packet[IpOffOffset + 1] + packet[IpOffOffset + 2]

\* C22: the IP header of a packet handed to sendto has the Don't-Fragment
\* flag (and nothing else in that field) exactly if allowFragment is false;
\* and when setting the don't-fragment socket option fails, the call returns
\* false and hands no packet to sendto.
C22_DontFragmentFlag ==
    \A p \in DOMAIN ping :
        (SentBy(p) /\ last.ret # "crashed")
            => /\ last.packet # <<>>
                     => KernelFragmentField(last.packet, build.mac, build.littleEndian)
                            = (IF last.args.allowFragment THEN 0 ELSE IP_DF)
               /\ (Calls("setsockopt") = 1 /\ ~last.env.setsockopt)
                     => (last.ret = "false" /\ Calls("sendto") = 0
                            /\ last.packet = <<>>)

\* a don't-fragment packet sent from a little-endian Linux host: 0x40 0x00
\* on the wire
C22_Witness ==
    /\ SentBy(1)
    /\ ~build.mac
    /\ build.littleEndian
    /\ ~last.args.allowFragment
    /\ last.ret = "true"
    /\ Len(last.packet) = IpSize + IcmpEchoSize + 16
    /\ last.packet[IpOffOffset + 1] = 64
    /\ last.packet[IpOffOffset + 2] = 0

\* the ICMP segment of the packet handed to sendto
SentIcmp == SubSeq(last.packet, IpSize + 1, Len(last.packet))

\* C23: for every packet handed to sendto, of even or odd payloadSize, the
\* ICMP segment has sizeof(IcmpEcho) + payloadSize bytes and calcChecksum
\* over it is zero.
C23_SentChecksumValidates ==
    \A p \in DOMAIN ping :
        (SentBy(p) /\ Calls("sendto") = 1 /\ last.ret # "crashed")
            => /\ Len(SentIcmp) = IcmpEchoSize + last.args.payloadSize
               /\ calcChecksum(SentIcmp, Len(SentIcmp), build.littleEndian) = 0

\* a packet of odd payload size sent without fragmenting from a big-endian
\* host, timestamp and filler in place
C23_Witness ==
    /\ SentBy(1)
    /\ ~build.littleEndian
    /\ ~build.mac
    /\ last.args.payloadSize = 17
    /\ ~last.args.allowFragment
    /\ last.ret = "true"
    /\ Len(SentIcmp) = 25
    /\ SentIcmp[16] = 16
    /\ SentIcmp[24] = 1
    /\ SentIcmp[25] = 16
    /\ <<SentIcmp[3], SentIcmp[4]>> # <<0, 0>>

\* C24: every packet handed to sendto is an echo request (type 8, code 0)
\* carrying, in network byte order, the prober's identifier and the value
\* nextSequence had before the call, which is the number of packets built
\* before it modulo 65536: two packets fewer than 65536 constructions apart
\* differ in their sequence field.
C24_EchoRequestFields ==
    \A p \in DOMAIN ping :
        (SentBy(p) /\ Calls("sendto") = 1 /\ last.ret # "crashed")
            => /\ SentIcmp[IcmpTypeOffset + 1] = 8
               /\ SentIcmp[IcmpCodeOffset + 1] = 0
               /\ 256 * SentIcmp[IcmpIdentifierOffset + 1] + SentIcmp[IcmpIdentifierOffset + 2]
                      = ping[p].identifier
               /\ 256 * SentIcmp[IcmpSequenceOffset + 1] + SentIcmp[IcmpSequenceOffset + 2]
                      = last.before
               /\ last.before = (stats[p].sends - 1) % 65536

\* the packet of the 65538th call, from a little-endian host: sequence 1
\* again
C24_Witness ==
    /\ SentBy(1)
    /\ build.littleEndian
    /\ stats[1].sends = 65538
    /\ last.ret = "true"
    /\ SubSeq(SentIcmp, 1, 2) = <<8, 0>>
    /\ SubSeq(SentIcmp, 5, 8) = <<1, 2, 0, 1>>

\* C25: a call makes at most one sendto and starts nothing that would send
\* later; the sendto is of sizeof(struct ip) + sizeof(IcmpEcho) +
\* payloadSize bytes and goes to the requested address, which is also the
\* destination of the IP header, both in network byte order; this holds
\* for a failed send and for the call after it.
C25_SingleTransmission ==
    \A p \in DOMAIN ping :
        /\ timers[p] = <<>>
        /\ (SentBy(p) /\ last.ret # "crashed")
              => /\ Calls("sendto") <= 1
                 /\ Calls("sendto") = 1
                       => /\ Len(last.packet)
                                 = IpSize + IcmpEchoSize + last.args.payloadSize
                          /\ last.to = last.args.address
                          /\ SubSeq(last.packet, IpDstOffset + 1, IpDstOffset + 4)
                                 = last.args.address
                 /\ Calls("sendto") = 0 => (last.packet = <<>> /\ last.to = <<>>)

\* a send to 192.0.2.7 from a little-endian host that would have blocked
C25_Witness ==
    /\ SentBy(1)
    /\ build.littleEndian
    /\ last.args.address = <<192, 0, 2, 7>>
    /\ last.args.payloadSize = 17
    /\ last.env.errno = "EWOULDBLOCK"
    /\ last.ret = "false"
    /\ last.calls = <<"sendto">>
    /\ last.to = <<192, 0, 2, 7>>
    /\ Len(last.packet) = 45

\* C26: after any wake-ups, whatever they dropped (a read error, a malformed
\* or non-ICMP datagram, a non-matching one) or warned about, the notifier
\* is still enabled on the open socket, the identifier is unchanged, and a
\* wake-up that reads a valid matching reply emits receivedReply.
C26_ListenerStaysArmed ==
    \A p \in DOMAIN ping :
        /\ stats[p].wakeups > 0
              => /\ ping[p].readNotifier
                 /\ ping[p].icmpSocket
                 /\ ping[p].identifier = InitialIdentifier(ctor[p].rand)
        /\ (Woke /\ last.p = p /\ IsValidReply(last.dgram, ping[p].identifier))
              => last.emitted = <<WireSource(last.dgram)>>

\* a reply emitted by the second wake-up, the first having dropped its
\* datagram
C26_Witness ==
    /\ Woke
    /\ stats[1].wakeups = 2
    /\ stats[1].valid = 1
    /\ stats[1].events = 1
    /\ last.emitted = <<(<<10, 0, 0, 1>>)>>
    /\ last.log = <<>>

\* C27: a wake-up whose recv() failed, and one that read a datagram whose
\* IP protocol field is not 1, emit no receivedReply and log one warning,
\* also when the buffer otherwise holds a matching echo reply.
C27_ErrorAndNonIcmpDropped ==
    (Woke /\ (last.dgram.read < 0
                 \/ (last.dgram.read > Ipv4ProtocolOffset
                        /\ last.dgram.bytes[Ipv4ProtocolOffset + 1] # 1)))
        => (last.emitted = <<>> /\ Len(last.log) = 1)

\* a UDP datagram (protocol 17) that is otherwise this prober's echo reply
C27_Witness ==
    /\ Woke
    /\ last.dgram.read >= Ipv4Size + IcmpEchoSize
    /\ last.dgram.bytes[1] = 69
    /\ last.dgram.bytes[Ipv4ProtocolOffset + 1] = 17
    /\ WireType(last.dgram) = 0
    /\ WireCode(last.dgram) = 0
    /\ WireIdentifier(last.dgram) = ping[last.p].identifier
    /\ WireChecksumCorrect(last.dgram)
    /\ last.emitted = <<>>
    /\ last.log = <<"Received non-ICMP packet">>

\* the sequence field of a well-formed datagram, as a host value
WireSequence(d) ==
    256 * d.bytes[WireHeaderBytes(d) + 7] + d.bytes[WireHeaderBytes(d) + 8]

\* C28: whether a wake-up emits receivedReply, and with which address, is
\* decided by the datagram's type, code, identifier and source and by the
\* prober's identifier alone: not by its sequence field, by nextSequence or
\* by the calls of sendEchoRequest made so far; every valid reply read
\* fires one event.
C28_AcceptanceStateless ==
    /\ Woke => last.emitted = (IF IsValidReply(last.dgram, ping[last.p].identifier)
                               THEN <<WireSource(last.dgram)>> ELSE <<>>)
    /\ \A p \in DOMAIN ping : stats[p].events = stats[p].valid

\* two requests sent (sequence 0 and 1), two replies fired, the last one
\* read carrying sequence 0
C28_Witness ==
    /\ Woke
    /\ stats[1].sends = 2
    /\ ping[1].nextSequence = 2
    /\ stats[1].wakeups = 2
    /\ stats[1].events = 2
    /\ WireSequence(last.dgram) = 0
    /\ last.emitted = <<(<<192, 0, 2, 7>>)>>

\* C29: in any interleaving, a wake-up of the listener leaves nextSequence
\* (and the object) as it was, a call of sendEchoRequest in the build with
\* the socket emits no receivedReply and schedules none, and the sequence
\* field of a packet sent is the number of packets built before it, however
\* many datagrams were read in between.
C29_SendsAndWakeupsIndependent ==
    /\ [](\A p \in DOMAIN ping :
             (SentBy(p) /\ ~build.unitTest)
                 => /\ last.emitted = <<>>
                    /\ timers[p] = <<>>
                    /\ (Calls("sendto") = 1 /\ last.ret # "crashed")
                          => 256 * SentIcmp[IcmpSequenceOffset + 1]
                                 + SentIcmp[IcmpSequenceOffset + 2]
                                 = (stats[p].sends - 1) % 65536)
    /\ [][last'.op = "onReadyRead"
             => /\ ping' = ping
                /\ \A p \in DOMAIN ping : stats'[p].sends = stats[p].sends]_vars

\* the second packet, sent after two wake-ups of which one emitted a reply
C29_Witness ==
    /\ SentBy(1)
    /\ stats[1].sends = 2
    /\ stats[1].wakeups = 2
    /\ stats[1].events = 1
    /\ last.ret = "true"
    /\ last.before = 1
    /\ SentIcmp[IcmpSequenceOffset + 2] = 1

\* C30: in the unit-test build a call of sendEchoRequest returns true,
\* makes no system call, emits nothing itself and leaves nextSequence as it
\* was; for an address outside 192.0.2.0/24 it starts exactly one single
\* shot for that address, for an address inside it starts none; a shot
\* emits receivedReply(address) once when it fires, later, and the shots
\* pending when the prober is destroyed never fire.
C30_UnitTestMock ==
    /\ [](build.unitTest
            => \A p \in DOMAIN ping :
                 /\ SentBy(p)
                       => (last.ret = "true" /\ last.emitted = <<>> /\ last.calls = <<>>
                           /\ last.packet = <<>>)
                 /\ \A i \in 1..Len(timers[p]) : SubSeq(timers[p][i], 1, 3) # <<192, 0, 2>>
                 /\ (last.emitted # <<>>)
                       => (last.op = "timer" /\ Len(last.emitted) = 1
                           /\ SubSeq(last.emitted[1], 1, 3) # <<192, 0, 2>>)
                 /\ ~ping[p].alive => timers[p] = <<>>)
    /\ [][build.unitTest
            => \A p \in DOMAIN ping :
                 /\ (last'.op = "sendEchoRequest" /\ last'.p = p)
                       => /\ ping'[p] = ping[p]
                          /\ stats'[p].events = stats[p].events
                          /\ timers'[p] = timers[p] \o
                                (IF SubSeq(last'.args.address, 1, 3) # <<192, 0, 2>>
                                 THEN <<last'.args.address>> ELSE <<>>)
                 /\ (last'.op = "timer" /\ last'.p = p)
                       => /\ timers[p] # <<>>
                          /\ last'.emitted = <<Head(timers[p])>>
                          /\ timers'[p] = Tail(timers[p])
                          /\ stats'[p].events = stats[p].events + 1
                 /\ (last'.op \notin {"sendEchoRequest", "timer"})
                       => stats'[p].events = stats[p].events]_vars

\* the unit-test build after a call for 10.0.0.1 and a call for 192.0.2.7:
\* the one single shot has fired and nothing is pending
C30_Witness ==
    /\ build.unitTest
    /\ last.op = "timer"
    /\ last.emitted = <<(<<10, 0, 0, 1>>)>>
    /\ stats[1].sends = 2
    /\ stats[1].events = 1
    /\ timers[1] = <<>>
    /\ ping[1].alive
    /\ ping[1].nextSequence = 0

====
